---- MODULE Spec2Model ----
(***************************************************************************)
(* Model of the medicine repository's two core subsystems:                 *)
(*   - the drug-interaction store and resolver                             *)
(*     (server/db-storage.ts, server/routes.ts, the DDL of                 *)
(*      server/database.ts and server/db-schema-push.ts);                  *)
(*   - the due computation of the reminder client                         *)
(*     (client/src/lib/reminders.ts);                                      *)
(*   - the medication-schedule aggregate and its owner-scoped routes       *)
(*     (server/routes.ts, server/db-storage.ts);                           *)
(*   - the realtime interaction check over /ws (server/routes.ts).         *)
(***************************************************************************)
EXTENDS Integers, Sequences, FiniteSets, TLC

(***************************************************************************)
(* Bounds of the model.                                                    *)
(***************************************************************************)
MaxMed == 2
MaxRows == 2
MaxList == 3

(* Medicine ids of the Directory, and one id that no medicine has. *)
MedIds == 1..MaxMed
NoMedicine == MaxMed + 1
RequestIds == 1..NoMedicine

(* z.enum(['Minor', 'Moderate', 'Major']); two members are enumerated. *)
Severities == {"Minor", "Major"}

(* An absent (undefined) field of a partial update. *)
Undefined == 0
NoSeverity == ""

VARIABLES
    ddl,               \* which script created the drug_interactions table
    medicines,         \* ids of the rows of the medicines table
    drugInteractions,  \* rows of the drug_interactions table
    nextId,            \* the SERIAL sequence of drug_interactions.id
    response,          \* the answer to the request being handled
    evaluation,        \* the latest call of isMedicationDue and its result
    medicationSchedules,  \* rows of the medication_schedules table
    scheduleFrequency,    \* rows of the schedule_frequency table
    reminderTimes,        \* rows of the reminder_times table
    medicationLogs,       \* rows of the medication_logs table
    serial,               \* the SERIAL sequences of these four tables
    handlers,             \* the schedule-route handlers in flight
    clock,                \* the server's clock, what new Date() returns
    socket,               \* ws.readyState of each /ws connection
    channel,              \* the messages received on the connections
    checker               \* the DrugInteractionChecker component of connection 1

storeVars == <<ddl, medicines, drugInteractions, nextId, response>>
tables == <<medicationSchedules, scheduleFrequency, reminderTimes, medicationLogs>>
aggregateVars == <<medicationSchedules, scheduleFrequency, reminderTimes, medicationLogs,
                   serial, handlers, clock>>
channelVars == <<socket, channel, checker>>
vars == <<ddl, medicines, drugInteractions, nextId, response, evaluation,
          medicationSchedules, scheduleFrequency, reminderTimes, medicationLogs,
          serial, handlers, clock, socket, channel, checker>>

(***************************************************************************)
(* The two table definitions the repository ships.                         *)
(***************************************************************************)
DDLs == {"initDatabase", "schemaPush"}

(* CONSTRAINT medicine_order CHECK (medicine1_id < medicine2_id) *)
medicine_order(d, row) ==
    d = "initDatabase" => row.medicine1Id < row.medicine2Id

(* CONSTRAINT unique_medicine_pair UNIQUE (medicine1_id, medicine2_id) *)
unique_medicine_pair(d, table, row) ==
    d = "initDatabase" =>
        \A other \in table :
            other.id # row.id =>
                ~(other.medicine1Id = row.medicine1Id /\ other.medicine2Id = row.medicine2Id)

(* medicine1_id / medicine2_id INTEGER NOT NULL REFERENCES medicines(id) *)
references_medicines(meds, row) ==
    row.medicine1Id \in meds /\ row.medicine2Id \in meds

(* Whether the database accepts `row` as a row of `table` (its own earlier
   version, if any, is the row of the same id). *)
TableAccepts(d, meds, table, row) ==
    /\ references_medicines(meds, row)
    /\ medicine_order(d, row)
    /\ unique_medicine_pair(d, table, row)

(***************************************************************************)
(* PostgresStorage: the interaction methods.                               *)
(***************************************************************************)
getMedicineById(meds, id) == id \in meds

(* The in-place swap of addInteraction and updateInteraction. *)
OrderedPair(medicine1Id, medicine2Id) ==
    IF medicine1Id > medicine2Id
    THEN <<medicine2Id, medicine1Id>>
    ELSE <<medicine1Id, medicine2Id>>

(* The row addInteraction hands to INSERT. *)
addInteraction(id, medicine1Id, medicine2Id, severity) ==
    LET p == OrderedPair(medicine1Id, medicine2Id)
    IN  [id |-> id, medicine1Id |-> p[1], medicine2Id |-> p[2], severity |-> severity]

(* The patch updateInteraction hands to UPDATE ... SET. *)
updatePatch(patch) ==
    IF patch.medicine1Id # Undefined /\ patch.medicine2Id # Undefined
    THEN LET p == OrderedPair(patch.medicine1Id, patch.medicine2Id)
         IN  [patch EXCEPT !.medicine1Id = p[1], !.medicine2Id = p[2]]
    ELSE patch

(* UPDATE ... SET patch: the columns the patch names are overwritten. *)
updateInteraction(row, patch) ==
    LET q == updatePatch(patch)
    IN  [id |-> row.id,
         medicine1Id |-> IF q.medicine1Id # Undefined THEN q.medicine1Id ELSE row.medicine1Id,
         medicine2Id |-> IF q.medicine2Id # Undefined THEN q.medicine2Id ELSE row.medicine2Id,
         severity |-> IF q.severity # NoSeverity THEN q.severity ELSE row.severity]

(* deleteInteraction with the WHERE clause left out. *)
deleteInteraction_noWhere(table, id) == table

(* deleteInteraction: the rows DELETE ... WHERE id = id removes. *)
deleteInteraction(table, id) == {row \in table : row.id = id}

Includes(medicineIds, id) == \E i \in 1..Len(medicineIds) : medicineIds[i] = id

(* getInteractions with the WHERE clause reduced to the first column. *)
getInteractions_medicine1Only(table, meds, medicineId) ==
    {row \in table :
        /\ row.medicine1Id = medicineId
        /\ getMedicineById(meds, row.medicine1Id)
        /\ getMedicineById(meds, row.medicine2Id)}

(* getInteractions: rows naming the medicine in either column, joined with
   both medicines; a row with a missing medicine is skipped. *)
getInteractions(table, meds, medicineId) ==
    {row \in table :
        /\ row.medicine1Id = medicineId \/ row.medicine2Id = medicineId
        /\ getMedicineById(meds, row.medicine1Id)
        /\ getMedicineById(meds, row.medicine2Id)}

(* The join with only the first medicine looked at. *)
BothMedicines_firstOnly(meds, row) == getMedicineById(meds, row.medicine1Id)

(* The join of checkInteractions: a row is kept when both medicines exist. *)
BothMedicines(meds, row) ==
    getMedicineById(meds, row.medicine1Id) /\ getMedicineById(meds, row.medicine2Id)

(* checkInteractions: [] for fewer than 2 ids; else the rows whose two ids are
   both in the list, joined with both medicines. *)
checkInteractions(table, meds, medicineIds) ==
    IF Len(medicineIds) < 2
    THEN {}
    ELSE {row \in table :
            /\ Includes(medicineIds, row.medicine1Id) \/ Includes(medicineIds, row.medicine2Id)
            /\ Includes(medicineIds, row.medicine1Id) /\ Includes(medicineIds, row.medicine2Id)
            /\ BothMedicines(meds, row)}

(***************************************************************************)
(* The due computation of client/src/lib/reminders.ts.                     *)
(*                                                                         *)
(* Strings the code takes apart (reminder.time, frequency.daysOfWeek) are  *)
(* sequences of one-character strings.  An instant is a day number (days   *)
(* since 1970-01-01, local time) and the milliseconds since that day's     *)
(* local midnight.  isMedicationDue takes no instant: it reads the clock,  *)
(* once for `now` and once more in every callback of reminders.some; the   *)
(* reads of one call lie within a millisecond, so a later read is on the   *)
(* next day only when `now` is the last millisecond of its day.            *)
(***************************************************************************)
MaxReminders == 2

NaN == -1
Null == <<"null">>

Digits == <<"0", "1", "2", "3", "4", "5", "6", "7", "8", "9">>

IsDigit(c) == \E d \in 1..10 : Digits[d] = c

DigitValue(c) == (CHOOSE d \in 1..10 : Digits[d] = c) - 1

(* String(n) for 0 <= n <= 9, the argument conversion of String.includes. *)
ToStr(n) == <<Digits[n + 1]>>

(* Number(s) of a string of decimal digits; "" is 0, anything else NaN. *)
RECURSIVE Number(_)
Number(s) ==
    IF s = <<>> THEN 0
    ELSE IF ~IsDigit(s[Len(s)]) THEN NaN
    ELSE LET front == Number(SubSeq(s, 1, Len(s) - 1))
         IN  IF front = NaN THEN NaN ELSE 10 * front + DigitValue(s[Len(s)])

(* s.split(':') *)
RECURSIVE SplitColon(_)
SplitColon(s) ==
    IF \A i \in 1..Len(s) : s[i] # ":"
    THEN <<s>>
    ELSE LET k == CHOOSE i \in 1..Len(s) : s[i] = ":" /\ \A j \in 1..(i - 1) : s[j] # ":"
         IN  <<SubSeq(s, 1, k - 1)>> \o SplitColon(SubSeq(s, k + 1, Len(s)))

(* const [hours, minutes] = reminder.time.split(':').map(Number) *)
ParseTime(time) ==
    LET parts == SplitColon(time)
    IN  [hours |-> Number(parts[1]),
         minutes |-> IF Len(parts) >= 2 THEN Number(parts[2]) ELSE NaN]

(* String.prototype.includes *)
StrIncludes(s, t) ==
    \E i \in 1..(Len(s) - Len(t) + 1) : SubSeq(s, i, i + Len(t) - 1) = t

(* Date.getDay: 1970-01-01 was a Thursday. *)
getDay(now) == (now.day + 4) % 7

(* Date.getDate for January to March 1970. *)
getDate(now) ==
    IF now.day < 31 THEN now.day + 1
    ELSE IF now.day < 59 THEN now.day - 30
    ELSE now.day - 58

(* reminderDate.setHours(hours, minutes, 0, 0) on today's date, as
   milliseconds since today's midnight. *)
setHours(hours, minutes) == (hours * 60 + minutes) * 60 * 1000

Abs(x) == IF x < 0 THEN 0 - x ELSE x

DueWindow == 30 * 60 * 1000

DayMs == 24 * 60 * 60 * 1000

(* The days the callbacks' own `new Date()` can read when `now` was read at
   the given instant: one day per reminder, never going back. *)
ClockReads(reminders, now) ==
    {reads \in [1..Len(reminders) -> {now.day, now.day + 1}] :
        /\ \A i \in 1..Len(reminders) : now.ms < DayMs - 1 => reads[i] = now.day
        /\ \A i \in 1..Len(reminders), j \in 1..Len(reminders) :
                i < j => reads[i] <= reads[j]}

(* The callback of reminders.some(...): reminderDate is the clock's date at
   the callback, `today`, with the reminder's hours and minutes; both
   getTime() values are taken from the midnight of now's day. *)
WithinWindow(reminder, now, today) ==
    LET t == ParseTime(reminder.time)
        reminderDate == (today - now.day) * DayMs + setHours(t.hours, t.minutes)
    IN  /\ t.hours # NaN
        /\ t.minutes # NaN
        /\ Abs(now.ms - reminderDate) <= DueWindow

SomeReminderDue(reminders, now, reads) ==
    \E i \in 1..Len(reminders) : WithinWindow(reminders[i], now, reads[i])

(* The day test with days counted from 1 (Sunday = 1). *)
DayScheduled_fromOne(frequency, currentDay) ==
    frequency.daysOfWeek # Null /\ StrIncludes(frequency.daysOfWeek, ToStr(currentDay + 1))

(* frequency.daysOfWeek?.includes(currentDay) *)
DayScheduled(frequency, currentDay) ==
    frequency.daysOfWeek # Null /\ StrIncludes(frequency.daysOfWeek, ToStr(currentDay))

NoFrequency == [frequencyType |-> "", daysOfWeek |-> Null, dayOfMonth |-> 0]

(* isMedicationDue with 'as_needed' falling into the 'daily' case. *)
isMedicationDue_asNeededDaily(schedule, frequency, reminders, now, reads) ==
    IF frequency = NoFrequency THEN FALSE
    ELSE CASE frequency.frequencyType \in {"daily", "as_needed"} ->
                SomeReminderDue(reminders, now, reads)
           [] frequency.frequencyType = "weekly" ->
                IF ~DayScheduled(frequency, getDay(now)) THEN FALSE
                ELSE SomeReminderDue(reminders, now, reads)
           [] frequency.frequencyType = "monthly" ->
                IF frequency.dayOfMonth # getDate(now) THEN FALSE
                ELSE SomeReminderDue(reminders, now, reads)
           [] OTHER -> FALSE

(* isMedicationDue consulting the schedule: not due when the schedule is
   inactive or today is outside [startDate, endDate]. *)
isMedicationDue_scheduleBounds(schedule, frequency, reminders, now, reads) ==
    IF frequency = NoFrequency THEN FALSE
    ELSE IF ~schedule.active \/ now.day < schedule.startDate
            \/ (schedule.endDate # -1 /\ now.day > schedule.endDate) THEN FALSE
    ELSE CASE frequency.frequencyType = "daily" ->
                SomeReminderDue(reminders, now, reads)
           [] frequency.frequencyType = "weekly" ->
                IF ~DayScheduled(frequency, getDay(now)) THEN FALSE
                ELSE SomeReminderDue(reminders, now, reads)
           [] frequency.frequencyType = "monthly" ->
                IF frequency.dayOfMonth # getDate(now) THEN FALSE
                ELSE SomeReminderDue(reminders, now, reads)
           [] OTHER -> FALSE

(* isMedicationDue with the default case falling into the 'daily' case. *)
isMedicationDue_defaultDaily(schedule, frequency, reminders, now, reads) ==
    IF frequency = NoFrequency THEN FALSE
    ELSE CASE frequency.frequencyType = "weekly" ->
                IF ~DayScheduled(frequency, getDay(now)) THEN FALSE
                ELSE SomeReminderDue(reminders, now, reads)
           [] frequency.frequencyType = "monthly" ->
                IF frequency.dayOfMonth # getDate(now) THEN FALSE
                ELSE SomeReminderDue(reminders, now, reads)
           [] frequency.frequencyType = "as_needed" -> FALSE
           [] OTHER -> SomeReminderDue(reminders, now, reads)

(* isMedicationDue: `now` is the first clock read, `reads` the days of the
   callbacks' reads. *)
isMedicationDue(schedule, frequency, reminders, now, reads) ==
    IF frequency = NoFrequency THEN FALSE
    ELSE CASE frequency.frequencyType = "daily" ->
                SomeReminderDue(reminders, now, reads)
           [] frequency.frequencyType = "weekly" ->
                IF ~DayScheduled(frequency, getDay(now)) THEN FALSE
                ELSE SomeReminderDue(reminders, now, reads)
           [] frequency.frequencyType = "monthly" ->
                IF frequency.dayOfMonth # getDate(now) THEN FALSE
                ELSE SomeReminderDue(reminders, now, reads)
           [] frequency.frequencyType = "as_needed" -> FALSE
           [] OTHER -> FALSE

(***************************************************************************)
(* Inputs of the due computation.                                          *)
(***************************************************************************)
(* reminder.time as the TIME column returns it ("08:00:00", "00:05:00") and
   as the reminder form sends it ("23:30"). *)
Time0800 == <<"0", "8", ":", "0", "0", ":", "0", "0">>
Time0005 == <<"0", "0", ":", "0", "5", ":", "0", "0">>
Time2330 == <<"2", "3", ":", "3", "0">>

ReminderRows == {[time |-> t] : t \in {Time0800, Time0005, Time2330}}

ReminderLists == UNION {[1..n -> ReminderRows] : n \in 0..MaxReminders}

(* frequency.daysOfWeek: "1,2,3,4,5", "0,6", "" or null. *)
DaysMonFri == <<"1", ",", "2", ",", "3", ",", "4", ",", "5">>
DaysWeekend == <<"0", ",", "6">>

Frequencies ==
    [frequencyType : {"daily", "weekly", "monthly", "as_needed", "hourly"},
     daysOfWeek : {Null, <<>>, DaysMonFri, DaysWeekend},
     dayOfMonth : {0, 5, 15}] \cup {NoFrequency}

(* MedicationSchedule: the fields that bound the schedule in time (day
   numbers; endDate -1 is null). *)
Schedules == [startDate : {0, 20}, endDate : {30, -1}, active : BOOLEAN]

TimeOfDay(h, m, sec, ms) == ((h * 60 + m) * 60 + sec) * 1000 + ms

(* Day numbers 2, 3, 4, 14, 45: Sat 3, Sun 4, Mon 5, Thu 15 January and
   Sun 15 February 1970. *)
Instants ==
    [day : {2, 3, 4, 14, 45},
     ms : {TimeOfDay(0, 0, 0, 0), TimeOfDay(7, 29, 59, 999), TimeOfDay(7, 30, 0, 0),
           TimeOfDay(8, 0, 0, 0), TimeOfDay(8, 15, 0, 0), TimeOfDay(8, 30, 0, 0),
           TimeOfDay(8, 30, 0, 1), TimeOfDay(8, 31, 0, 0), TimeOfDay(8, 45, 0, 0),
           TimeOfDay(23, 50, 0, 0), TimeOfDay(23, 59, 59, 999)}]

NotEvaluated ==
    [called |-> FALSE, schedule |-> [startDate |-> 0, endDate |-> 10, active |-> TRUE],
     frequency |-> NoFrequency, reminders |-> <<>>,
     now |-> [day |-> 2, ms |-> 0], reads |-> <<>>, due |-> FALSE]

(***************************************************************************)
(* The medication-schedule aggregate: medication_schedules and its child   *)
(* tables schedule_frequency, reminder_times and medication_logs, as       *)
(* db-schema-push.ts creates them (the columns of shared/schema.ts).  A    *)
(* row carries its id and the columns that refer to other rows.            *)
(***************************************************************************)
MaxSchedules == 1
MaxChildRows == 1
MaxHandlers == 2

(* users.id of the registered users; req.session.userId is one of them. *)
Users == {1, 2}

(* :id and :scheduleId of the schedule routes, :id of DELETE /reminders. *)
ScheduleIds == 1..MaxSchedules
ReminderIds == 1..MaxChildRows

(* reminder_time_id is nullable. *)
NullId == 0

(* start_date DATE NOT NULL and end_date DATE, as day numbers; end_date may
   be NULL. *)
MaxDate == 2
Dates == 1..MaxDate
NullDate == -1

(* What the clients of a specification send.  slots: the handlers that may
   be in flight at once; posts: the startDate and endDate of the bodies of
   POST /api/schedules; patches: those of the bodies of PATCH
   /api/schedules/:id (Undefined: the body does not name the field);
   frequencies and logs: how many rows the clients ask to insert; limits:
   the limit of the queries of the log views. *)
NoDates == [startDate |-> Undefined, endDate |-> Undefined]

Concurrent ==
    [slots |-> 1..MaxHandlers,
     posts |-> {[startDate |-> 1, endDate |-> NullDate]},
     patches |-> {NoDates},
     frequencies |-> MaxChildRows,
     logs |-> MaxChildRows,
     limits |-> {NaN}]

(* One request at a time, with every combination of dates. *)
Calendar ==
    [slots |-> {1},
     posts |-> [startDate : Dates, endDate : Dates \cup {NullDate}],
     patches |-> [startDate : Dates \cup {Undefined},
                  endDate : Dates \cup {NullDate, Undefined}],
     frequencies |-> MaxChildRows,
     logs |-> MaxChildRows,
     limits |-> {NaN}]

(* One request at a time, with room for several frequency rows and log rows
   of a schedule. *)
MaxLedgerRows == 2

Ledger ==
    [slots |-> {1},
     posts |-> {[startDate |-> 1, endDate |-> NullDate]},
     patches |-> {NoDates},
     frequencies |-> MaxLedgerRows,
     logs |-> MaxLedgerRows,
     limits |-> {NaN}]

(* schedule_id INTEGER NOT NULL REFERENCES medication_schedules(id), with
   the FOREIGN KEY check disabled. *)
schedule_id_fk_unchecked(schedules, row) == TRUE

(* schedule_id INTEGER NOT NULL REFERENCES medication_schedules(id) *)
schedule_id_fk(schedules, row) ==
    \E schedule \in schedules : schedule.id = row.scheduleId

(* reminder_time_id INTEGER REFERENCES reminder_times(id) *)
reminder_time_id_fk(reminders, row) ==
    row.reminderTimeId = NullId \/ \E reminder \in reminders : reminder.id = row.reminderTimeId

(* REFERENCES without ON DELETE, seen from the DELETE of medication_schedules,
   with the check disabled. *)
ScheduleReferenced_unchecked(frequencies, reminders, logs, id) == FALSE

(* REFERENCES without ON DELETE: a schedule row that a child row refers to
   cannot be deleted. *)
ScheduleReferenced(frequencies, reminders, logs, id) ==
    \E row \in frequencies \cup reminders \cup logs : row.scheduleId = id

(* A reminder_times row that a medication_logs row refers to cannot be
   deleted. *)
ReminderReferenced(logs, gone) ==
    \E log \in logs, reminder \in gone : log.reminderTimeId = reminder.id

(* The check of every schedule route with the schedule found and owned by
   someone else let through. *)
OwnerCheck_foundOnly(schedules, userId, id) ==
    IF \A schedule \in schedules : schedule.id # id THEN 404 ELSE 0

(* if (!schedule) 404; if (schedule.userId !== userId) 403; 0: the handler
   goes on. *)
OwnerCheck(schedules, userId, id) ==
    IF \A schedule \in schedules : schedule.id # id THEN 404
    ELSE IF (CHOOSE schedule \in schedules : schedule.id = id).userId # userId THEN 403
    ELSE 0

(* The catch block of a schedule route answering the success status. *)
Caught_asSuccess(op) == IF op = "deleteSchedule" THEN 204 ELSE 500

(* catch (error) { return res.status(500)... } *)
Caught(op) == 500

(* DELETE /api/schedules/:id answering failure whatever
   deleteMedicationSchedule returns. *)
DeleteScheduleAnswer_failure(success) == 500

(* if (!success) 500 else 204, of DELETE /api/schedules/:id *)
DeleteScheduleAnswer(success) == IF success THEN 204 ELSE 500

(* The instants of the server's clock, in milliseconds. *)
MaxClock == 2
ServerInstants == 1..MaxClock

(* logData.takenAt taken from the body when the body names it. *)
LogTakenAt_fromBody(bodyTakenAt, now) ==
    IF bodyTakenAt # Undefined THEN bodyTakenAt ELSE now

(* { ...req.body, scheduleId, takenAt: new Date() }: the later key wins. *)
LogTakenAt(bodyTakenAt, now) == now

(* req.query.limit after parseInt: NaN when the query names no limit or no
   number, a negative number, 0, or a count. *)
MaxLimit == 2
NegativeLimit == -2
QueryLimits == {NaN, NegativeLimit} \cup 0..MaxLimit

DefaultScheduleLimit == 100
DefaultUserLimit == 30

(* parseInt(req.query.limit as string) || 100: NaN and 0 are falsy. *)
LimitOf(query, default) == IF query = NaN \/ query = 0 THEN default ELSE query

(* .orderBy(desc(medicationLogs.takenAt)): the rows in an order of
   descending takenAt; rows of the same takenAt come in any order. *)
Listings(rows) ==
    {list \in [1..Cardinality(rows) -> rows] :
        /\ \A i \in DOMAIN list, j \in DOMAIN list : i < j => list[i] # list[j]
        /\ \A i \in DOMAIN list, j \in DOMAIN list :
                i < j => list[i].takenAt >= list[j].takenAt}

(* .limit(limit) for a limit the statement carries; a negative limit that
   the query builder leaves out of the statement truncates nothing. *)
Limited(list, limit) ==
    IF limit < 0 \/ limit >= Len(list) THEN list ELSE SubSeq(list, 1, limit)

(* getMedicationLogsForSchedule: the arrays the SELECT may return. *)
getMedicationLogsForSchedule(logs, scheduleId, limit) ==
    {Limited(list, limit) : list \in Listings({log \in logs : log.scheduleId = scheduleId})}

(* getMedicationSchedulesForUser(userId).map(schedule => schedule.id) *)
getMedicationSchedulesForUser(schedules, userId) ==
    {schedule.id : schedule \in {s \in schedules : s.userId = userId}}

(* getMedicationLogsForUser with the SELECT over the logs of every
   schedule. *)
getMedicationLogsForUser_everySchedule(logs, scheduleIds, limit) ==
    IF scheduleIds = {} THEN {<<>>}
    ELSE {Limited(list, limit) : list \in Listings(logs)}

(* getMedicationLogsForUser after the schedules have been read: [] when the
   user has none, else the arrays the SELECT with inArray may return. *)
getMedicationLogsForUser(logs, scheduleIds, limit) ==
    IF scheduleIds = {} THEN {<<>>}
    ELSE {Limited(list, limit) :
            list \in Listings({log \in logs : log.scheduleId \in scheduleIds})}

(* A handler in flight.  op: the route; userId: the session's user; target:
   the id of the path; arg: the userId of a PATCH body or the
   reminderTimeId of a log body; pc: the statement it awaits; scan: the
   schedule ids DELETE /reminders has yet to look at; seen: the owner of the
   schedule the handler read (0: none read, or none found); failed: a
   statement of the handler threw; status and body: its answer; dates: the
   startDate and endDate of a PATCH body; takenAt: logData.takenAt of POST
   /logs; limit: the limit of a log view; list: the array a log view
   answers; retry: a DELETE of a schedule that arrived after an earlier
   DELETE of it had failed part-way. *)
Handler(op, userId, target, arg, pc) ==
    [op |-> op, userId |-> userId, target |-> target, arg |-> arg, pc |-> pc,
     scan |-> {}, seen |-> 0, failed |-> FALSE, status |-> 0, body |-> {},
     dates |-> NoDates, takenAt |-> Undefined, limit |-> 0, list |-> <<>>,
     retry |-> FALSE]

NoHandler == Handler("none", 0, 0, 0, "none")

OwnerOf(schedules, id) ==
    IF \A schedule \in schedules : schedule.id # id THEN 0
    ELSE (CHOOSE schedule \in schedules : schedule.id = id).userId

(* The only schedule ever created is stored, frequency rows were inserted
   and none is left: with one request at a time, an earlier
   deleteMedicationSchedule removed them and failed at a later statement. *)
PartlyDeleted(schedules, frequencies, sequences, id) ==
    /\ \E schedule \in schedules : schedule.id = id
    /\ sequences.schedules = 1
    /\ sequences.frequency > 0
    /\ frequencies = {}

(* The handler answers: res.status(status).json(body). *)
Answered(handler, status, body) ==
    [handler EXCEPT !.pc = "done", !.status = status, !.body = body]

(* The handler's statement threw and its catch block answers. *)
Thrown(handler) ==
    [handler EXCEPT !.pc = "done", !.status = Caught(handler.op), !.failed = TRUE]

(* The state with no schedule data and no handler in flight. *)
NoAggregate ==
    /\ medicationSchedules = {}
    /\ scheduleFrequency = {}
    /\ reminderTimes = {}
    /\ medicationLogs = {}
    /\ serial = [schedules |-> 0, frequency |-> 0, reminders |-> 0, logs |-> 0]
    /\ handlers = [h \in 1..MaxHandlers |-> NoHandler]
    /\ clock = 1

(***************************************************************************)
(* The realtime channel: the WebSocket connections of /ws and the messages *)
(* the server receives on them.                                            *)
(***************************************************************************)
MaxMessages == 2
MaxConnections == 2

(* The connections wss.on('connection') has accepted, each with a `ws` and
   message handler of its own. *)
Connections == 1..MaxConnections

(* An entry of data.medicineIds that is not a number, such as "x". *)
NonNumericEntry == 0

(* data.medicineIds when it is an array: up to two entries, each a medicine
   id or not a number. *)
MedicineIdsArrays == UNION {[1..n -> MedIds \cup {NonNumericEntry}] : n \in 0..2}

(* The messages a client can send: text that is not JSON, a message of
   another type, and check_interactions with medicineIds an array or not
   (isArray; a value that is no array has no entries). *)
ClientMessages ==
    {[type |-> "invalid JSON", isArray |-> FALSE, medicineIds |-> <<>>],
     [type |-> "other", isArray |-> FALSE, medicineIds |-> <<>>],
     [type |-> "check_interactions", isArray |-> FALSE, medicineIds |-> <<>>]}
        \cup [type : {"check_interactions"}, isArray : {TRUE}, medicineIds : MedicineIdsArrays]

(* A message on the server.  ws: the connection it came on; pc: "none" (not
   received), "resolving" (the
   handler awaits storage.checkInteractions) or "done"; invoked:
   checkInteractions was called; threw: it threw; results / errors: the
   interactions_result / error messages sent for it; rows: the
   interactions of the result. *)
NoMessage ==
    [ws |-> 0, type |-> "none", isArray |-> FALSE, medicineIds |-> <<>>, pc |-> "none",
     invoked |-> FALSE,
     threw |-> FALSE, results |-> 0, errors |-> 0, rows |-> {}]

(* !Array.isArray(data.medicineIds) || data.medicineIds.length < 2 *)
FailsValidation(data) == ~data.isArray \/ Len(data.medicineIds) < 2

(* ws.readyState === WebSocket.OPEN, never true. *)
IsOpen_never(readyState) == FALSE

(* ws.readyState === WebSocket.OPEN, never tested: the answer is sent
   whatever the state of the socket. *)
IsOpen_always(readyState) == TRUE

(* ws.readyState === WebSocket.OPEN *)
IsOpen(readyState) == readyState = "open"

(* An error that no catch block takes: the unhandled rejection ends the
   server process and with it the connection. *)
SocketAfterCatch_uncaught(readyState) == "closed"

(* try { ... } catch (error) { ... }: the handler takes every error of a
   message and leaves the socket as it is. *)
SocketAfterCatch(readyState) == readyState

(* The statement of checkInteractions throws for an entry that is not a
   number: the database rejects it as a parameter of an integer column. *)
RejectsParameter(medicineIds) ==
    \E i \in 1..Len(medicineIds) : medicineIds[i] = NonNumericEntry

(* The component's state: readyState of its WebSocket, the useState hooks
   isConnecting, isChecking and error (set or null), the selectedMedicines
   prop as ids, outbox: the messages it has sent that the server has yet to
   receive, delivered: the server's messages whose onmessage has run. *)
NoChecker ==
    [readyState |-> "closed", isConnecting |-> FALSE, isChecking |-> FALSE,
     error |-> FALSE, selectedMedicines |-> <<>>, outbox |-> 0, delivered |-> {}]

(* The selectedMedicines a page passes to the component. *)
SelectedMedicines == {<<1>>, <<1, 2>>}

(* JSON.stringify({ type: 'check_interactions', medicineIds }) *)
CheckRequest(medicineIds) ==
    [type |-> "check_interactions", isArray |-> TRUE, medicineIds |-> medicineIds]

(* handleCheckInteractions *)
handleCheckInteractions(component) ==
    IF component.readyState # "open" THEN [component EXCEPT !.error = TRUE]
    ELSE IF Len(component.selectedMedicines) < 2 THEN [component EXCEPT !.error = TRUE]
    ELSE [component EXCEPT !.isChecking = TRUE, !.error = FALSE, !.outbox = @ + 1]

(* socket.onclose: console.log alone. *)
onclose(component) == [component EXCEPT !.readyState = "closed"]

(* The state with no connection and no component. *)
NoChannel ==
    /\ socket = [c \in Connections |-> "closed"]
    /\ channel = [m \in 1..MaxMessages |-> NoMessage]
    /\ checker = NoChecker

(***************************************************************************)
(* Requests and responses of the interaction routes.                       *)
(***************************************************************************)
NoPatch == [medicine1Id |-> Undefined, medicine2Id |-> Undefined, severity |-> NoSeverity]

(* op: the route; status: the HTTP status; ids: the ids of the request
   (the pair as given, the row id, the medicine id, or the id list);
   rows: the rows of the body. *)
Answer(op, status, ids, rows) ==
    [op |-> op, status |-> status, ids |-> ids, rows |-> rows]

(* No request is being handled. *)
Idle == Answer("none", 0, <<>>, {})

(* Partial<InsertDrugInteraction> that names at least one column. *)
Patches ==
    [medicine1Id : RequestIds \cup {Undefined},
     medicine2Id : RequestIds \cup {Undefined},
     severity : {NoSeverity, "Major"}] \ {NoPatch}

(* Lists of medicine ids of length 0..MaxList. *)
IdLists == UNION {[1..n -> RequestIds] : n \in 0..MaxList}

Init ==
    /\ ddl \in DDLs
    /\ medicines = MedIds
    /\ drugInteractions = {}
    /\ nextId = 1
    /\ response = Idle
    /\ evaluation = NotEvaluated
    /\ NoAggregate
    /\ NoChannel

(* POST /api/interactions *)
PostInteraction ==
    /\ response = Idle
    /\ nextId <= MaxRows
    /\ \E medicine1Id \in RequestIds, medicine2Id \in RequestIds, severity \in Severities :
        LET row == addInteraction(nextId, medicine1Id, medicine2Id, severity)
        IN  IF TableAccepts(ddl, medicines, drugInteractions, row)
            THEN /\ drugInteractions' = drugInteractions \cup {row}
                 /\ nextId' = nextId + 1
                 /\ response' = Answer("add", 201, <<medicine1Id, medicine2Id>>, {row})
            ELSE /\ response' = Answer("add", 500, <<medicine1Id, medicine2Id>>, {})
                 /\ UNCHANGED <<drugInteractions, nextId>>
    /\ UNCHANGED <<ddl, medicines, evaluation, aggregateVars, channelVars>>

(* PATCH /api/interactions/:id *)
PatchInteraction ==
    /\ response = Idle
    /\ \E id \in 1..MaxRows, patch \in Patches :
        LET found == {row \in drugInteractions : row.id = id}
        IN  IF found = {}
            THEN /\ response' = Answer("update", 404, <<id>>, {})
                 /\ UNCHANGED drugInteractions
            ELSE LET old == CHOOSE row \in found : TRUE
                     new == updateInteraction(old, patch)
                 IN  IF TableAccepts(ddl, medicines, drugInteractions, new)
                     THEN /\ drugInteractions' = (drugInteractions \ {old}) \cup {new}
                          /\ response' = Answer("update", 200, <<id>>, {new})
                     ELSE /\ response' = Answer("update", 500, <<id>>, {})
                          /\ UNCHANGED drugInteractions
    /\ UNCHANGED <<ddl, medicines, nextId, evaluation, aggregateVars, channelVars>>

(* DELETE /api/interactions/:id *)
DeleteInteraction ==
    /\ response = Idle
    /\ \E id \in 1..MaxRows :
        LET gone == deleteInteraction(drugInteractions, id)
        IN  /\ drugInteractions' = drugInteractions \ gone
            /\ response' = Answer("delete", IF gone # {} THEN 204 ELSE 404, <<id>>, gone)
    /\ UNCHANGED <<ddl, medicines, nextId, evaluation, aggregateVars, channelVars>>

(* GET /api/interactions/medicine/:id *)
GetInteractions ==
    /\ response = Idle
    /\ \E medicineId \in RequestIds :
        response' = Answer("get", 200, <<medicineId>>,
                           getInteractions(drugInteractions, medicines, medicineId))
    /\ UNCHANGED <<ddl, medicines, drugInteractions, nextId, evaluation, aggregateVars, channelVars>>

(* POST /api/interactions/check *)
PostInteractionsCheck ==
    /\ response = Idle
    /\ \E medicineIds \in IdLists :
        IF Len(medicineIds) < 2
        THEN response' = Answer("check", 400, medicineIds, {})
        ELSE response' = Answer("check", 200, medicineIds,
                                checkInteractions(drugInteractions, medicines, medicineIds))
    /\ UNCHANGED <<ddl, medicines, drugInteractions, nextId, evaluation, aggregateVars, channelVars>>

(* The handler returns: res.json / res.status(..).end() closes the request. *)
Respond ==
    /\ response # Idle
    /\ response' = Idle
    /\ UNCHANGED <<ddl, medicines, drugInteractions, nextId, evaluation, aggregateVars, channelVars>>

Next ==
    \/ PostInteraction
    \/ PatchInteraction
    \/ DeleteInteraction
    \/ GetInteractions
    \/ PostInteractionsCheck
    \/ Respond

Spec == Init /\ [][Next]_vars

(***************************************************************************)
(* The resolver over an arbitrary content of the two tables it reads.      *)
(* getInteractions and checkInteractions read drug_interactions and then   *)
(* medicines in separate statements, outside any transaction, and skip a   *)
(* row whose medicine they do not find; here the rows may name the id that *)
(* has no medicine.                                                        *)
(***************************************************************************)
(* A table of up to MaxRows rows: per id, no row (<<>>) or a pair of ids. *)
StoredTables ==
    {{[id |-> id, medicine1Id |-> f[id][1], medicine2Id |-> f[id][2], severity |-> "Major"] :
        id \in {i \in 1..MaxRows : f[i] # <<>>}} :
     f \in [1..MaxRows -> (RequestIds \X RequestIds) \cup {<<>>}]}

InitResolver ==
    /\ ddl = "schemaPush"
    /\ medicines = MedIds
    /\ drugInteractions \in StoredTables
    /\ nextId = MaxRows + 1
    /\ response = Idle
    /\ evaluation = NotEvaluated
    /\ NoAggregate
    /\ NoChannel

NextResolver ==
    \/ GetInteractions
    \/ PostInteractionsCheck
    \/ Respond

SpecResolver == InitResolver /\ [][NextResolver]_vars

(***************************************************************************)
(* The reminder client evaluates isMedicationDue.                          *)
(***************************************************************************)
InitDue ==
    /\ ddl = "schemaPush"
    /\ medicines = MedIds
    /\ drugInteractions = {}
    /\ nextId = 1
    /\ response = Idle
    /\ evaluation = NotEvaluated
    /\ NoAggregate
    /\ NoChannel

CallIsMedicationDue ==
    /\ evaluation = NotEvaluated
    /\ \E schedule \in Schedules, frequency \in Frequencies,
          reminders \in ReminderLists, now \in Instants :
        \E reads \in ClockReads(reminders, now) :
            evaluation' = [called |-> TRUE, schedule |-> schedule, frequency |-> frequency,
                              reminders |-> reminders, now |-> now, reads |-> reads,
                              due |-> isMedicationDue(schedule, frequency, reminders, now, reads)]
    /\ UNCHANGED <<storeVars, channelVars, aggregateVars>>

ReturnDue ==
    /\ evaluation # NotEvaluated
    /\ evaluation' = NotEvaluated
    /\ UNCHANGED <<storeVars, channelVars, aggregateVars>>

NextDue == CallIsMedicationDue \/ ReturnDue

SpecDue == InitDue /\ [][NextDue]_vars

(***************************************************************************)
(* The schedule routes.  Every route runs behind requireAuth with the      *)
(* session of a registered user.  A handler takes one step per statement   *)
(* it awaits from the database; handlers in flight interleave between      *)
(* their statements.  The first step of a route is the arrival of the      *)
(* request with its first statement, the last one sends the answer.        *)
(***************************************************************************)
InitAggregate ==
    /\ ddl = "schemaPush"
    /\ medicines = MedIds
    /\ drugInteractions = {}
    /\ nextId = 1
    /\ response = Idle
    /\ evaluation = NotEvaluated
    /\ NoAggregate
    /\ NoChannel

Free(h) == handlers[h] = NoHandler

(* The handlers of the route `op` that have yet to insert their row. *)
Inserting(op) == Cardinality({k \in 1..MaxHandlers : handlers[k].op = op /\ handlers[k].pc = "insert"})

At(h, op, pc) == handlers[h].op = op /\ handlers[h].pc = pc

(* The step of a route that reads the schedule and checks its owner: the
   handler answers 404 or 403, answers 400 for a body the zod schema
   rejects, or goes on to the statement `pc`. *)
CheckedRequest(h, request, valid) ==
    LET read == [request EXCEPT !.seen = OwnerOf(medicationSchedules, request.target)]
        status == OwnerCheck(medicationSchedules, request.userId, request.target)
    IN  handlers' = [handlers EXCEPT ![h] =
            IF status # 0 THEN Answered(read, status, {})
            ELSE IF ~valid THEN Answered(read, 400, {})
            ELSE read]

(* POST /api/schedules *)
PostSchedule(h, load) ==
    /\ Free(h)
    /\ serial.schedules < MaxSchedules
    /\ \E userId \in Users, body \in load.posts :
        LET row == [id |-> serial.schedules + 1, userId |-> userId,
                    startDate |-> body.startDate, endDate |-> body.endDate]
        IN  /\ medicationSchedules' = medicationSchedules \cup {row}
            /\ serial' = [serial EXCEPT !.schedules = @ + 1]
            /\ handlers' = [handlers EXCEPT ![h] =
                    Answered(Handler("postSchedule", userId, row.id, 0, "insert"), 201, {row})]
    /\ UNCHANGED <<storeVars, channelVars, evaluation, clock, scheduleFrequency, reminderTimes, medicationLogs>>

(* GET /api/schedules/:id *)
GetSchedule(h) ==
    /\ Free(h)
    /\ \E userId \in Users, id \in ScheduleIds :
        LET request == [Handler("getSchedule", userId, id, 0, "select")
                            EXCEPT !.seen = OwnerOf(medicationSchedules, id)]
            status == OwnerCheck(medicationSchedules, userId, id)
        IN  handlers' = [handlers EXCEPT ![h] =
                IF status # 0 THEN Answered(request, status, {})
                ELSE Answered(request, 200, {s \in medicationSchedules : s.id = id})]
    /\ UNCHANGED <<storeVars, channelVars, evaluation, clock, tables, serial>>

(* PATCH /api/schedules/:id: the owner check.  The body is a partial
   InsertMedicationSchedule, which may name userId. *)
PatchSchedule(h, load) ==
    /\ Free(h)
    /\ \E userId \in Users, id \in ScheduleIds, newUserId \in Users \cup {Undefined},
          dates \in load.patches, valid \in BOOLEAN :
        CheckedRequest(h, [Handler("patchSchedule", userId, id, newUserId, "update")
                                EXCEPT !.dates = dates], valid)
    /\ UNCHANGED <<storeVars, channelVars, evaluation, clock, tables, serial>>

(* PATCH /api/schedules/:id: storage.updateMedicationSchedule; the answer is
   the updated row, or nothing when the row is gone. *)
UpdateSchedule(h) ==
    /\ At(h, "patchSchedule", "update")
    /\ LET old == {s \in medicationSchedules : s.id = handlers[h].target}
           data == handlers[h].dates
           new == {[s EXCEPT !.userId = IF handlers[h].arg # Undefined
                                          THEN handlers[h].arg ELSE @,
                             !.startDate = IF data.startDate # Undefined
                                           THEN data.startDate ELSE @,
                             !.endDate = IF data.endDate # Undefined
                                         THEN data.endDate ELSE @] : s \in old}
       IN  /\ medicationSchedules' = (medicationSchedules \ old) \cup new
           /\ handlers' = [handlers EXCEPT ![h] = Answered(@, 200, new)]
    /\ UNCHANGED <<storeVars, channelVars, evaluation, clock, scheduleFrequency, reminderTimes, medicationLogs,
                   serial>>

(* DELETE /api/schedules/:id: the owner check. *)
DeleteSchedule(h) ==
    /\ Free(h)
    /\ \E userId \in Users, id \in ScheduleIds :
        CheckedRequest(h, [Handler("deleteSchedule", userId, id, 0, "deleteReminderTimes")
                                EXCEPT !.retry = PartlyDeleted(medicationSchedules,
                                                               scheduleFrequency, serial, id)],
                       TRUE)
    /\ UNCHANGED <<storeVars, channelVars, evaluation, clock, tables, serial>>

(* deleteMedicationSchedule, first statement:
   db.delete(reminderTimes).where(eq(reminderTimes.scheduleId, id)).
   `fault`: the database fails the statement for a reason of its own. *)
DeleteReminderTimesOfSchedule(h) ==
    /\ At(h, "deleteSchedule", "deleteReminderTimes")
    /\ \E fault \in BOOLEAN :
        LET gone == {r \in reminderTimes : r.scheduleId = handlers[h].target}
        IN  IF fault \/ ReminderReferenced(medicationLogs, gone)
            THEN /\ handlers' = [handlers EXCEPT ![h] = Thrown(@)]
                 /\ UNCHANGED reminderTimes
            ELSE /\ reminderTimes' = reminderTimes \ gone
                 /\ handlers' = [handlers EXCEPT ![h].pc = "deleteFrequency"]
    /\ UNCHANGED <<storeVars, channelVars, evaluation, clock, medicationSchedules, scheduleFrequency,
                   medicationLogs, serial>>

(* deleteMedicationSchedule, second statement:
   db.delete(scheduleFrequency).where(eq(scheduleFrequency.scheduleId, id)) *)
DeleteFrequencyOfSchedule(h) ==
    /\ At(h, "deleteSchedule", "deleteFrequency")
    /\ \E fault \in BOOLEAN :
        IF fault
        THEN /\ handlers' = [handlers EXCEPT ![h] = Thrown(@)]
             /\ UNCHANGED scheduleFrequency
        ELSE /\ scheduleFrequency' =
                    {f \in scheduleFrequency : f.scheduleId # handlers[h].target}
             /\ handlers' = [handlers EXCEPT ![h].pc = "deleteLogs"]
    /\ UNCHANGED <<storeVars, channelVars, evaluation, clock, medicationSchedules, reminderTimes,
                   medicationLogs, serial>>

(* deleteMedicationSchedule, third statement:
   db.delete(medicationLogs).where(eq(medicationLogs.scheduleId, id)) *)
DeleteLogsOfSchedule(h) ==
    /\ At(h, "deleteSchedule", "deleteLogs")
    /\ \E fault \in BOOLEAN :
        IF fault
        THEN /\ handlers' = [handlers EXCEPT ![h] = Thrown(@)]
             /\ UNCHANGED medicationLogs
        ELSE /\ medicationLogs' = {l \in medicationLogs : l.scheduleId # handlers[h].target}
             /\ handlers' = [handlers EXCEPT ![h].pc = "deleteSchedule"]
    /\ UNCHANGED <<storeVars, channelVars, evaluation, clock, medicationSchedules, scheduleFrequency,
                   reminderTimes, serial>>

(* deleteMedicationSchedule, last statement:
   db.delete(medicationSchedules).where(eq(medicationSchedules.id, id))
   .returning(), and the route's answer. *)
DeleteScheduleRow(h) ==
    /\ At(h, "deleteSchedule", "deleteSchedule")
    /\ \E fault \in BOOLEAN :
        LET gone == {s \in medicationSchedules : s.id = handlers[h].target}
        IN  IF fault \/ (gone # {} /\ ScheduleReferenced(scheduleFrequency, reminderTimes,
                                                        medicationLogs, handlers[h].target))
            THEN /\ handlers' = [handlers EXCEPT ![h] = Thrown(@)]
                 /\ UNCHANGED medicationSchedules
            ELSE /\ medicationSchedules' = medicationSchedules \ gone
                 /\ handlers' = [handlers EXCEPT ![h] =
                        Answered(@, DeleteScheduleAnswer(gone # {}), {})]
    /\ UNCHANGED <<storeVars, channelVars, evaluation, clock, scheduleFrequency, reminderTimes, medicationLogs,
                   serial>>

(* POST /api/schedules/:scheduleId/frequency: the owner check. *)
PostFrequency(h, load) ==
    /\ Free(h)
    /\ serial.frequency + Inserting("postFrequency") < load.frequencies
    /\ \E userId \in Users, id \in ScheduleIds, valid \in BOOLEAN :
        CheckedRequest(h, Handler("postFrequency", userId, id, 0, "insert"), valid)
    /\ UNCHANGED <<storeVars, channelVars, evaluation, clock, tables, serial>>

(* storage.createScheduleFrequency *)
InsertFrequency(h) ==
    /\ At(h, "postFrequency", "insert")
    /\ LET row == [id |-> serial.frequency + 1, scheduleId |-> handlers[h].target]
       IN  IF schedule_id_fk(medicationSchedules, row)
           THEN /\ scheduleFrequency' = scheduleFrequency \cup {row}
                /\ handlers' = [handlers EXCEPT ![h] = Answered(@, 201, {row})]
           ELSE /\ handlers' = [handlers EXCEPT ![h] = Thrown(@)]
                /\ UNCHANGED scheduleFrequency
    /\ serial' = [serial EXCEPT !.frequency = @ + 1]
    /\ UNCHANGED <<storeVars, channelVars, evaluation, clock, medicationSchedules, reminderTimes, medicationLogs>>

(* POST /api/schedules/:scheduleId/reminders: the owner check. *)
PostReminder(h) ==
    /\ Free(h)
    /\ serial.reminders + Inserting("postReminder") < MaxChildRows
    /\ \E userId \in Users, id \in ScheduleIds, valid \in BOOLEAN :
        CheckedRequest(h, Handler("postReminder", userId, id, 0, "insert"), valid)
    /\ UNCHANGED <<storeVars, channelVars, evaluation, clock, tables, serial>>

(* storage.createReminderTime *)
InsertReminder(h) ==
    /\ At(h, "postReminder", "insert")
    /\ LET row == [id |-> serial.reminders + 1, scheduleId |-> handlers[h].target]
       IN  IF schedule_id_fk(medicationSchedules, row)
           THEN /\ reminderTimes' = reminderTimes \cup {row}
                /\ handlers' = [handlers EXCEPT ![h] = Answered(@, 201, {row})]
           ELSE /\ handlers' = [handlers EXCEPT ![h] = Thrown(@)]
                /\ UNCHANGED reminderTimes
    /\ serial' = [serial EXCEPT !.reminders = @ + 1]
    /\ UNCHANGED <<storeVars, channelVars, evaluation, clock, medicationSchedules, scheduleFrequency,
                   medicationLogs>>

(* POST /api/schedules/:scheduleId/logs: the owner check and the parse of
   the body.  The body may name a reminderTimeId and a takenAt. *)
PostLog(h, load) ==
    /\ Free(h)
    /\ serial.logs + Inserting("postLog") < load.logs
    /\ \E userId \in Users, id \in ScheduleIds, reminderTimeId \in ReminderIds \cup {NullId},
          bodyTakenAt \in ServerInstants \cup {Undefined}, valid \in BOOLEAN :
        CheckedRequest(h, [Handler("postLog", userId, id, reminderTimeId, "insert")
                                EXCEPT !.takenAt = LogTakenAt(bodyTakenAt, clock)], valid)
    /\ UNCHANGED <<storeVars, channelVars, evaluation, clock, tables, serial>>

(* storage.createMedicationLog *)
InsertLog(h) ==
    /\ At(h, "postLog", "insert")
    /\ LET row == [id |-> serial.logs + 1, scheduleId |-> handlers[h].target,
                   reminderTimeId |-> handlers[h].arg, takenAt |-> handlers[h].takenAt]
       IN  IF schedule_id_fk(medicationSchedules, row) /\ reminder_time_id_fk(reminderTimes, row)
           THEN /\ medicationLogs' = medicationLogs \cup {row}
                /\ handlers' = [handlers EXCEPT ![h] = Answered(@, 201, {row})]
           ELSE /\ handlers' = [handlers EXCEPT ![h] = Thrown(@)]
                /\ UNCHANGED medicationLogs
    /\ serial' = [serial EXCEPT !.logs = @ + 1]
    /\ UNCHANGED <<storeVars, channelVars, evaluation, clock, medicationSchedules, scheduleFrequency,
                   reminderTimes>>

(* GET /api/schedules/:scheduleId/frequency, /reminders and /logs: the owner
   check. *)
GetChildren(h, load) ==
    /\ Free(h)
    /\ \E op \in {"getFrequency", "getReminders", "getLogs"},
          userId \in Users, id \in ScheduleIds, query \in load.limits :
        /\ op # "getLogs" => query = NaN
        /\ CheckedRequest(h, [Handler(op, userId, id, 0, "select")
                                EXCEPT !.limit = IF op = "getLogs"
                                                 THEN LimitOf(query, DefaultScheduleLimit)
                                                 ELSE 0], TRUE)
    /\ UNCHANGED <<storeVars, channelVars, evaluation, clock, tables, serial>>

(* The array as the set of its entries. *)
Entries(list) == {list[i] : i \in 1..Len(list)}

(* storage.getScheduleFrequencyForSchedule (results[0] of a SELECT without
   ORDER BY: any one of the rows; 404 when there is none),
   getReminderTimesForSchedule, getMedicationLogsForSchedule (`refused`: the
   database refuses a negative LIMIT that the statement carries). *)
SelectChildren(h) ==
    /\ handlers[h].op \in {"getFrequency", "getReminders", "getLogs"}
    /\ handlers[h].pc = "select"
    /\ LET rows == CASE handlers[h].op = "getFrequency" ->
                            {f \in scheduleFrequency : f.scheduleId = handlers[h].target}
                     [] handlers[h].op = "getReminders" ->
                            {r \in reminderTimes : r.scheduleId = handlers[h].target}
                     [] handlers[h].op = "getLogs" ->
                            {l \in medicationLogs : l.scheduleId = handlers[h].target}
       IN  CASE handlers[h].op = "getFrequency" ->
                    IF rows = {}
                    THEN handlers' = [handlers EXCEPT ![h] = Answered(@, 404, {})]
                    ELSE \E first \in rows :
                            handlers' = [handlers EXCEPT ![h] = Answered(@, 200, {first})]
             [] handlers[h].op = "getReminders" ->
                    handlers' = [handlers EXCEPT ![h] = Answered(@, 200, rows)]
             [] handlers[h].op = "getLogs" ->
                    \E refused \in BOOLEAN :
                        IF handlers[h].limit < 0 /\ refused
                        THEN handlers' = [handlers EXCEPT ![h] = Thrown(@)]
                        ELSE \E list \in getMedicationLogsForSchedule(
                                            medicationLogs, handlers[h].target, handlers[h].limit) :
                                handlers' = [handlers EXCEPT ![h] =
                                    Answered([@ EXCEPT !.list = list], 200, Entries(list))]
    /\ UNCHANGED <<storeVars, channelVars, evaluation, clock, tables, serial>>

(* GET /api/logs: the first statement of getMedicationLogsForUser,
   getMedicationSchedulesForUser; [] at once when the user has no schedule.
   The handler reads no schedule by id. *)
GetUserLogs(h, load) ==
    /\ Free(h)
    /\ \E userId \in Users, query \in load.limits :
        LET own == getMedicationSchedulesForUser(medicationSchedules, userId)
            request == [Handler("getUserLogs", userId, 0, 0, "select")
                            EXCEPT !.scan = own, !.limit = LimitOf(query, DefaultUserLimit)]
        IN  handlers' = [handlers EXCEPT ![h] =
                IF own = {} THEN Answered(request, 200, {}) ELSE request]
    /\ UNCHANGED <<storeVars, channelVars, evaluation, clock, tables, serial>>

(* GET /api/logs: the second statement of getMedicationLogsForUser. *)
SelectUserLogs(h) ==
    /\ At(h, "getUserLogs", "select")
    /\ \E refused \in BOOLEAN :
        IF handlers[h].limit < 0 /\ refused
        THEN handlers' = [handlers EXCEPT ![h] = Thrown(@)]
        ELSE \E list \in getMedicationLogsForUser(medicationLogs, handlers[h].scan,
                                                  handlers[h].limit) :
                handlers' = [handlers EXCEPT ![h] =
                    Answered([@ EXCEPT !.list = list], 200, Entries(list))]
    /\ UNCHANGED <<storeVars, channelVars, evaluation, clock, tables, serial>>

(* DELETE /api/reminders/:id: storage.getMedicationSchedulesForUser.  The
   handler reads no schedule by id; `seen` is the owner of the schedule the
   reminder is in. *)
DeleteReminder(h) ==
    /\ Free(h)
    /\ \E userId \in Users, reminderId \in ReminderIds :
        LET own == {s.id : s \in {x \in medicationSchedules : x.userId = userId}}
            of == {r.scheduleId : r \in {x \in reminderTimes : x.id = reminderId}}
            request == [Handler("deleteReminder", userId, reminderId, 0, "scan")
                            EXCEPT !.scan = own,
                                   !.seen = IF of = {} THEN 0
                                            ELSE OwnerOf(medicationSchedules,
                                                         CHOOSE id \in of : TRUE)]
        IN  handlers' = [handlers EXCEPT ![h] =
                IF own = {} THEN Answered(request, 403, {}) ELSE request]
    /\ UNCHANGED <<storeVars, channelVars, evaluation, clock, tables, serial>>

(* DELETE /api/reminders/:id: one turn of the loop,
   storage.getReminderTimesForSchedule(scheduleId). *)
ScanReminders(h) ==
    /\ At(h, "deleteReminder", "scan")
    /\ \E scheduleId \in handlers[h].scan :
        LET reminders == {r \in reminderTimes : r.scheduleId = scheduleId}
            rest == handlers[h].scan \ {scheduleId}
        IN  handlers' = [handlers EXCEPT ![h] =
                IF \E r \in reminders : r.id = handlers[h].target
                THEN [@ EXCEPT !.pc = "delete", !.scan = {}]
                ELSE IF rest = {} THEN Answered([@ EXCEPT !.scan = {}], 403, {})
                ELSE [@ EXCEPT !.scan = rest]]
    /\ UNCHANGED <<storeVars, channelVars, evaluation, clock, tables, serial>>

(* DELETE /api/reminders/:id: storage.deleteReminderTime *)
DeleteReminderTime(h) ==
    /\ At(h, "deleteReminder", "delete")
    /\ LET gone == {r \in reminderTimes : r.id = handlers[h].target}
       IN  IF ReminderReferenced(medicationLogs, gone)
           THEN /\ handlers' = [handlers EXCEPT ![h] = Thrown(@)]
                /\ UNCHANGED reminderTimes
           ELSE /\ reminderTimes' = reminderTimes \ gone
                /\ handlers' = [handlers EXCEPT ![h] =
                        Answered(@, IF gone # {} THEN 204 ELSE 404, {})]
    /\ UNCHANGED <<storeVars, channelVars, evaluation, clock, medicationSchedules, scheduleFrequency,
                   medicationLogs, serial>>

(* The answer has been sent; the handler is over. *)
Finish(h) ==
    /\ handlers[h].pc = "done"
    /\ handlers' = [handlers EXCEPT ![h] = NoHandler]
    /\ UNCHANGED <<storeVars, channelVars, evaluation, clock, tables, serial>>

(* One step of the handler in slot h. *)
Step(h, load) ==
    \/ PostSchedule(h, load)
    \/ GetSchedule(h)
    \/ PatchSchedule(h, load)
    \/ UpdateSchedule(h)
    \/ DeleteSchedule(h)
    \/ DeleteReminderTimesOfSchedule(h)
    \/ DeleteFrequencyOfSchedule(h)
    \/ DeleteLogsOfSchedule(h)
    \/ DeleteScheduleRow(h)
    \/ PostFrequency(h, load)
    \/ InsertFrequency(h)
    \/ PostReminder(h)
    \/ InsertReminder(h)
    \/ PostLog(h, load)
    \/ InsertLog(h)
    \/ GetChildren(h, load)
    \/ SelectChildren(h)
    \/ GetUserLogs(h, load)
    \/ SelectUserLogs(h)
    \/ DeleteReminder(h)
    \/ ScanReminders(h)
    \/ DeleteReminderTime(h)
    \/ Finish(h)

NextAggregate == \E h \in Concurrent.slots : Step(h, Concurrent)

SpecAggregate == InitAggregate /\ [][NextAggregate]_vars

(* The schedule routes with one request at a time and every combination of
   dates in the bodies. *)
NextCalendar == \E h \in Calendar.slots : Step(h, Calendar)

SpecCalendar == InitAggregate /\ [][NextCalendar]_vars

(***************************************************************************)
(* The log views over stored schedules and logs: GET                       *)
(* /api/schedules/:scheduleId/logs and GET /api/logs, one request at a     *)
(* time, with every limit a query can name.  The tables hold what earlier  *)
(* requests have stored: schedules of either user and their logs.          *)
(***************************************************************************)
MaxHistorySchedules == 2
MaxHistoryLogs == 3

History ==
    [slots |-> {1},
     posts |-> {},
     patches |-> {},
     frequencies |-> 0,
     logs |-> 0,
     limits |-> QueryLimits]

StoredSchedules ==
    {{[id |-> i, userId |-> owner[i], startDate |-> 1, endDate |-> NullDate] :
            i \in 1..MaxHistorySchedules} :
        owner \in [1..MaxHistorySchedules -> Users]}

StoredLogs ==
    UNION {{{[id |-> i, scheduleId |-> of[i].scheduleId, reminderTimeId |-> NullId,
              takenAt |-> of[i].takenAt] : i \in 1..n} :
                of \in [1..n -> [scheduleId : 1..MaxHistorySchedules,
                                 takenAt : ServerInstants]]} :
            n \in 0..MaxHistoryLogs}

InitHistory ==
    /\ ddl = "schemaPush"
    /\ medicines = MedIds
    /\ drugInteractions = {}
    /\ nextId = 1
    /\ response = Idle
    /\ evaluation = NotEvaluated
    /\ medicationSchedules \in StoredSchedules
    /\ scheduleFrequency = {}
    /\ reminderTimes = {}
    /\ medicationLogs \in StoredLogs
    /\ serial = [schedules |-> MaxHistorySchedules, frequency |-> 0, reminders |-> 0,
                 logs |-> Cardinality(medicationLogs)]
    /\ handlers = [h \in 1..MaxHandlers |-> NoHandler]
    /\ clock = MaxClock
    /\ NoChannel

NextHistory ==
    \E h \in History.slots :
        \/ GetChildren(h, History)
        \/ SelectChildren(h)
        \/ GetUserLogs(h, History)
        \/ SelectUserLogs(h)
        \/ Finish(h)

SpecHistory == InitHistory /\ [][NextHistory]_vars

(* The server's clock advances. *)
Tick ==
    /\ clock < MaxClock
    /\ clock' = clock + 1
    /\ UNCHANGED <<storeVars, channelVars, evaluation, tables, serial, handlers>>

(* The schedule routes with one request at a time, several frequency and
   log rows, and time passing between the requests. *)
NextLedger ==
    \/ \E h \in Ledger.slots : Step(h, Ledger)
    \/ Tick

SpecLedger == InitAggregate /\ [][NextLedger]_vars

(***************************************************************************)
(* The realtime channel: wss.on('connection') and ws.on('message').  The   *)
(* clients have connected; the store holds one interaction.  Each message  *)
(* has a handler of its own, and the handlers interleave at their await.   *)
(***************************************************************************)
InitChannel ==
    /\ ddl = "schemaPush"
    /\ medicines = MedIds
    /\ drugInteractions = {addInteraction(1, 1, 2, "Major")}
    /\ nextId = 2
    /\ response = Idle
    /\ evaluation = NotEvaluated
    /\ NoAggregate
    /\ socket = [c \in Connections |-> "open"]
    /\ channel = [m \in 1..MaxMessages |-> NoMessage]
    /\ checker = NoChecker

(* ws.on('message'), up to the await: JSON.parse, the type test, the
   validation and the call of storage.checkInteractions. *)
Receive(c, data) ==
    /\ socket[c] = "open"
    /\ \E m \in 1..MaxMessages :
        /\ channel[m].pc = "none"
        /\ \A k \in 1..(m - 1) : channel[k].pc # "none"
        /\  LET message == [NoMessage EXCEPT !.ws = c,
                                             !.type = data.type,
                                             !.isArray = data.isArray,
                                             !.medicineIds = data.medicineIds]
            IN  CASE data.type = "invalid JSON" ->
                        /\ socket' = [socket EXCEPT ![c] = SocketAfterCatch(@)]
                        /\ channel' = [channel EXCEPT ![m] =
                                [message EXCEPT !.pc = "done",
                                                !.errors = IF IsOpen(socket[c]) THEN 1 ELSE 0]]
                  [] data.type = "other" ->
                        /\ channel' = [channel EXCEPT ![m] = [message EXCEPT !.pc = "done"]]
                        /\ UNCHANGED socket
                  [] data.type = "check_interactions" ->
                        /\ channel' = [channel EXCEPT ![m] =
                                IF FailsValidation(data)
                                THEN [message EXCEPT !.pc = "done", !.errors = 1]
                                ELSE [message EXCEPT !.pc = "resolving", !.invoked = TRUE]]
                        /\ UNCHANGED socket
    /\ UNCHANGED <<storeVars, evaluation, aggregateVars>>

(* ws.on('message') for a message of any client. *)
ReceiveMessage(c) ==
    /\ \E data \in ClientMessages : Receive(c, data)
    /\ UNCHANGED checker

(* ws.on('message'), after the await: storage.checkInteractions has
   returned or thrown (for an entry it cannot pass to the database, or for
   a fault of the database), and the answer is sent if the socket of the
   message is open. *)
ResolveMessage(m) ==
    /\ channel[m].pc = "resolving"
    /\ \E fault \in BOOLEAN :
        IF fault \/ RejectsParameter(channel[m].medicineIds)
        THEN /\ socket' = [socket EXCEPT ![channel[m].ws] = SocketAfterCatch(@)]
             /\ channel' = [channel EXCEPT ![m] =
                    [@ EXCEPT !.pc = "done", !.threw = TRUE,
                              !.errors = IF IsOpen(socket[channel[m].ws]) THEN 1 ELSE 0]]
        ELSE /\ channel' = [channel EXCEPT ![m] =
                    [@ EXCEPT !.pc = "done",
                              !.results = IF IsOpen(socket[channel[m].ws]) THEN 1 ELSE 0,
                              !.rows = IF IsOpen(socket[channel[m].ws])
                                       THEN checkInteractions(drugInteractions, medicines,
                                                              channel[m].medicineIds)
                                       ELSE {}]]
             /\ UNCHANGED socket
    /\ UNCHANGED <<storeVars, evaluation, aggregateVars, checker>>

(* A client disconnects: ws.on('close'). *)
CloseConnection(c) ==
    /\ socket[c] = "open"
    /\ socket' = [socket EXCEPT ![c] = "closed"]
    /\ UNCHANGED <<storeVars, evaluation, aggregateVars, channel, checker>>

NextChannel ==
    \/ \E c \in Connections : ReceiveMessage(c)
    \/ \E m \in 1..MaxMessages : ResolveMessage(m)
    \/ \E c \in Connections : CloseConnection(c)

SpecChannel == InitChannel /\ [][NextChannel]_vars

(* checkInteractions returns or throws: the promise the handler awaits is
   settled in the end. *)
SpecChannelLive ==
    SpecChannel /\ \A m \in 1..MaxMessages : WF_vars(ResolveMessage(m))

(***************************************************************************)
(* The DrugInteractionChecker component, the client of connection 1.       *)
(***************************************************************************)
TheConnection == 1

(* The component mounts: its hooks hold their defaults and the socket it
   has created is connecting; the server holds the table of InitChannel. *)
InitChecker ==
    /\ ddl = "schemaPush"
    /\ medicines = MedIds
    /\ drugInteractions = {addInteraction(1, 1, 2, "Major")}
    /\ nextId = 2
    /\ response = Idle
    /\ evaluation = NotEvaluated
    /\ NoAggregate
    /\ socket = [c \in Connections |-> "open"]
    /\ channel = [m \in 1..MaxMessages |-> NoMessage]
    /\ \E selected \in SelectedMedicines :
        checker = [NoChecker EXCEPT !.readyState = "connecting",
                                    !.isConnecting = TRUE,
                                    !.selectedMedicines = selected]

(* socket.onopen *)
OnOpen ==
    /\ checker.readyState = "connecting"
    /\ socket[TheConnection] = "open"
    /\ LET opened == [checker EXCEPT !.readyState = "open", !.isConnecting = FALSE]
       IN  checker' = IF Len(checker.selectedMedicines) >= 2
                      THEN handleCheckInteractions(opened)
                      ELSE opened
    /\ UNCHANGED <<storeVars, evaluation, aggregateVars, socket, channel>>

(* The Check Interactions button, enabled unless isConnecting, isChecking or
   fewer than two medicines are selected. *)
ClickCheck ==
    /\ ~checker.isConnecting
    /\ ~checker.isChecking
    /\ Len(checker.selectedMedicines) >= 2
    /\ \E m \in 1..MaxMessages : channel[m].pc = "none"
    /\ checker.outbox = 0
    /\ checker' = handleCheckInteractions(checker)
    /\ UNCHANGED <<storeVars, evaluation, aggregateVars, socket, channel>>

(* A message the component has sent arrives at the server. *)
Deliver ==
    /\ checker.outbox > 0
    /\ Receive(TheConnection, CheckRequest(checker.selectedMedicines))
    /\ checker' = [checker EXCEPT !.outbox = @ - 1]

(* socket.onmessage, for a message the server has sent on the connection:
   interactions_result or error. *)
OnMessage(m) ==
    /\ checker.readyState = "open"
    /\ channel[m].ws = TheConnection
    /\ channel[m].pc = "done"
    /\ channel[m].results + channel[m].errors > 0
    /\ m \notin checker.delivered
    /\ checker' = [checker EXCEPT !.delivered = @ \cup {m},
                                  !.isChecking = FALSE,
                                  !.error = IF channel[m].errors > 0 THEN TRUE ELSE @]
    /\ UNCHANGED <<storeVars, evaluation, aggregateVars, socket, channel>>

(* socket.onerror: the browser has failed the connection. *)
OnError ==
    /\ checker.readyState \in {"connecting", "open"}
    /\ checker' = [checker EXCEPT !.readyState = "closed",
                                  !.error = TRUE,
                                  !.isConnecting = FALSE,
                                  !.isChecking = FALSE]
    /\ UNCHANGED <<storeVars, evaluation, aggregateVars, socket, channel>>

(* socket.onclose: the connection has ended without an error event, after
   every message sent on it has been handled. *)
OnClose ==
    /\ checker.readyState = "open"
    /\ socket[TheConnection] = "closed"
    /\ \A m \in 1..MaxMessages :
            (channel[m].ws = TheConnection /\ channel[m].results + channel[m].errors > 0)
                => m \in checker.delivered
    /\ checker' = onclose(checker)
    /\ UNCHANGED <<storeVars, evaluation, aggregateVars, socket, channel>>

NextChecker ==
    \/ OnOpen
    \/ ClickCheck
    \/ Deliver
    \/ \E m \in 1..MaxMessages : ResolveMessage(m)
    \/ \E m \in 1..MaxMessages : OnMessage(m)
    \/ OnError
    \/ OnClose
    \/ \E c \in Connections : CloseConnection(c)

SpecChecker == InitChecker /\ [][NextChecker]_vars

(* The network and the server go on: a message sent on a live connection
   arrives, the lookup settles, and the events of the socket are handled.
   Nothing obliges the connection to end or the user to click. *)
SpecCheckerLive ==
    /\ SpecChecker
    /\ WF_vars(OnOpen)
    /\ WF_vars(Deliver)
    /\ \A m \in 1..MaxMessages : WF_vars(ResolveMessage(m))
    /\ \A m \in 1..MaxMessages : WF_vars(OnMessage(m))
    /\ WF_vars(OnClose)

(***************************************************************************)
(* Properties of the interaction store and resolver.                       *)
(***************************************************************************)
IdsOf(list) == {list[i] : i \in 1..Len(list)}

PairOf(row) == {row.medicine1Id, row.medicine2Id}

(* Canonicalize(a, b) = (min(a, b), max(a, b)) *)
Canonicalize(a, b) == <<IF a < b THEN a ELSE b, IF a < b THEN b ELSE a>>

(* C1: every stored interaction row has medicine1Id < medicine2Id, whatever
   AddInteraction and UpdateInteraction calls came before. *)
C1_StoredPairsOrdered ==
    \A row \in drugInteractions : row.medicine1Id < row.medicine2Id

(* C2: the store never holds two rows for the same unordered pair of
   medicines. *)
C2_OneRowPerUnorderedPair ==
    \A r1 \in drugInteractions, r2 \in drugInteractions :
        PairOf(r1) = PairOf(r2) => r1 = r2

(* C3: adding a self-pair is answered with an error and stores nothing, so
   no stored row has medicine1Id = medicine2Id. *)
C3_SelfPairRejected ==
    /\ (response.op = "add" /\ response.ids[1] = response.ids[2]) =>
            (response.status # 201 /\ response.rows = {})
    /\ \A row \in drugInteractions : row.medicine1Id # row.medicine2Id

(* C4: an accepted AddInteraction of a # b stores the key Canonicalize(a, b),
   which is the key of (b, a) too; and GetInteractionsFor(m) returns every
   stored row between m and another medicine, whichever column m is in, so
   both medicines of a row surface that row. *)
C4_CanonicalSymmetry ==
    /\ (response.op = "add" /\ response.status = 201 /\ response.ids[1] # response.ids[2]) =>
            \E row \in response.rows :
                /\ row \in drugInteractions
                /\ <<row.medicine1Id, row.medicine2Id>>
                      = Canonicalize(response.ids[1], response.ids[2])
                /\ <<row.medicine1Id, row.medicine2Id>>
                      = Canonicalize(response.ids[2], response.ids[1])
    /\ response.op = "get" =>
            \A row \in drugInteractions :
                (/\ row.medicine1Id # row.medicine2Id
                 /\ response.ids[1] \in PairOf(row)
                 /\ PairOf(row) \subseteq medicines) => row \in response.rows

(* C4 witness: the medicine with the higher id was asked for and the row,
   stored under the lower id first, is in the answer. *)
C4_Witness ==
    /\ response.op = "get"
    /\ \E row \in response.rows :
          row.medicine1Id < row.medicine2Id /\ response.ids[1] = row.medicine2Id

(* A rearrangement of the list: the same ids, each as many times. *)
IsPermutation(other, list) ==
    /\ Len(other) = Len(list)
    /\ \A id \in RequestIds :
          Cardinality({i \in 1..Len(other) : other[i] = id})
            = Cardinality({i \in 1..Len(list) : list[i] = id})

(* C5: CheckCombination returns exactly one result per unordered pair of
   input ids that has a stored interaction and no result for any other
   pair, and the same results for every permutation of the list. *)
C5_CombinationCompleteness ==
    (response.op = "check" /\ response.status = 200) =>
        LET ids == IdsOf(response.ids)
        IN  /\ \A a \in ids, b \in ids :
                a < b =>
                    Cardinality({row \in response.rows : PairOf(row) = {a, b}})
                      = IF \E row \in drugInteractions : PairOf(row) = {a, b} THEN 1 ELSE 0
            /\ \A row \in response.rows :
                    /\ row.medicine1Id # row.medicine2Id
                    /\ PairOf(row) \subseteq ids
            /\ \A other \in IdLists :
                    IsPermutation(other, response.ids) =>
                        checkInteractions(drugInteractions, medicines, other) = response.rows

(* C6: a check of fewer than two distinct medicine ids is answered 400 and
   carries no lookup result. *)
C6_InsufficientInputRejected ==
    (response.op = "check" /\ Cardinality(IdsOf(response.ids)) < 2) =>
        (response.status = 400 /\ response.rows = {})

(* C7: a check of two or more ids is answered 200, and of the stored rows
   whose two ids are in the list it returns exactly those whose two
   medicines exist: a row with a missing medicine is left out, every other
   one is returned. *)
C7_MissingMedicineDropped ==
    (response.op = "check" /\ Len(response.ids) >= 2) =>
        /\ response.status = 200
        /\ \A row \in drugInteractions :
                PairOf(row) \subseteq IdsOf(response.ids) =>
                    (row \in response.rows <=> PairOf(row) \subseteq medicines)

(* C7 witness: a matching row with a missing medicine was left out and
   another matching row was returned. *)
C7_Witness ==
    /\ response.op = "check"
    /\ response.status = 200
    /\ \E dropped \in drugInteractions \ response.rows, kept \in response.rows :
          /\ PairOf(dropped) \subseteq IdsOf(response.ids)
          /\ ~(PairOf(dropped) \subseteq medicines)
          /\ PairOf(kept) \subseteq medicines

(* C16: DeleteInteraction of an id that is not in the store answers 404
   (not-found, nothing thrown) and leaves the store as it was; of an id that
   is in the store it removes that one row, no other, and answers 204. *)
C16_DeleteInteractionReports ==
    [][(response.op = "none" /\ response'.op = "delete") =>
            LET found == {row \in drugInteractions : row.id = response'.ids[1]}
            IN  IF found = {}
                THEN response'.status = 404 /\ drugInteractions' = drugInteractions
                ELSE /\ response'.status = 204
                     /\ Cardinality(found) = 1
                     /\ drugInteractions' = drugInteractions \ found]_vars

(* C16 witness: a delete of an id that is not in a store that has a row. *)
C16_Witness ==
    /\ response.op = "delete"
    /\ response.status = 404
    /\ drugInteractions # {}

(***************************************************************************)
(* Properties of the due computation.  The calendar facts and the meaning  *)
(* of the stored strings are tabulated here, apart from the code's         *)
(* parsing.                                                                *)
(***************************************************************************)
(* Day of week (0 = Sunday) and day of month of the enumerated days. *)
DayOfWeekOf(day) ==
    CASE day = 2 -> 6 [] day = 3 -> 0 [] day = 4 -> 1 [] day = 14 -> 4 [] day = 45 -> 0

DayOfMonthOf(day) ==
    CASE day = 2 -> 3 [] day = 3 -> 4 [] day = 4 -> 5 [] day = 14 -> 15 [] day = 45 -> 15

(* The set of days a daysOfWeek value stands for. *)
DaysOf(daysOfWeek) ==
    CASE daysOfWeek = DaysMonFri -> {1, 2, 3, 4, 5}
      [] daysOfWeek = DaysWeekend -> {0, 6}
      [] OTHER -> {}

(* Minutes after midnight of a reminder time. *)
MinutesOf(time) ==
    CASE time = Time0800 -> 8 * 60
      [] time = Time0005 -> 5
      [] time = Time2330 -> 23 * 60 + 30

ThirtyMinutes == 30 * 60 * 1000

(* The distance between now and today's occurrence of the reminder. *)
Distance(reminder, now) == Abs(now.ms - MinutesOf(reminder.time) * 60 * 1000)

ActiveDay(frequency, now) ==
    \/ frequency.frequencyType = "daily"
    \/ /\ frequency.frequencyType = "weekly"
       /\ DayOfWeekOf(now.day) \in DaysOf(frequency.daysOfWeek)
    \/ /\ frequency.frequencyType = "monthly"
       /\ DayOfMonthOf(now.day) = frequency.dayOfMonth

(* C8: a schedule whose frequency type is as_needed is never due. *)
C8_AsNeededNeverDue ==
    (evaluation.called /\ evaluation.frequency.frequencyType = "as_needed") =>
        ~evaluation.due

(* C8 witness: an as_needed schedule evaluated at the very time of one of
   its reminders. *)
C8_Witness ==
    /\ evaluation.called
    /\ evaluation.frequency.frequencyType = "as_needed"
    /\ \E i \in 1..Len(evaluation.reminders) :
          Distance(evaluation.reminders[i], evaluation.now) = 0
    /\ ~evaluation.due

(* C9: on an active day the schedule is due exactly when some reminder's
   occurrence on today's date is at most 30 minutes from now; the distance
   is taken within the day, so nothing wraps across midnight and an empty
   list is never due. *)
C9_DueWithinThirtyMinutes ==
    (evaluation.called /\ ActiveDay(evaluation.frequency, evaluation.now)) =>
        (evaluation.due <=>
            \E i \in 1..Len(evaluation.reminders) :
                Distance(evaluation.reminders[i], evaluation.now) <= ThirtyMinutes)

(* C10: a weekly schedule is not due on a day of the week outside
   daysOfWeek, and a monthly one is not due on a day of the month other
   than dayOfMonth. *)
C10_InactiveDayNotDue ==
    (/\ evaluation.called
     /\ \/ /\ evaluation.frequency.frequencyType = "weekly"
           /\ DayOfWeekOf(evaluation.now.day) \notin DaysOf(evaluation.frequency.daysOfWeek)
        \/ /\ evaluation.frequency.frequencyType = "monthly"
           /\ DayOfMonthOf(evaluation.now.day) # evaluation.frequency.dayOfMonth)
        => ~evaluation.due

(* C10 witness: a Monday-to-Friday schedule evaluated on a Saturday at the
   very time of a reminder. *)
C10_Witness ==
    /\ evaluation.called
    /\ evaluation.frequency.frequencyType = "weekly"
    /\ evaluation.frequency.daysOfWeek = DaysMonFri
    /\ DayOfWeekOf(evaluation.now.day) = 6
    /\ \E i \in 1..Len(evaluation.reminders) :
          Distance(evaluation.reminders[i], evaluation.now) = 0
    /\ ~evaluation.due

(* C11: IsDue is deterministic: the answer of an evaluation is the answer of
   every evaluation with the same schedule, frequency, reminder times and
   now; nothing else that the evaluation reads can change it. *)
C11_DueDeterministic ==
    evaluation.called =>
        \A reads \in ClockReads(evaluation.reminders, evaluation.now) :
            isMedicationDue(evaluation.schedule, evaluation.frequency,
                            evaluation.reminders, evaluation.now, reads) = evaluation.due

(* C12: the answer does not depend on the schedule's startDate, endDate or
   active flag: every other schedule gets the same answer for the same
   frequency, reminder times and clock, also when now is outside
   [startDate, endDate]. *)
C12_DueIgnoresScheduleBounds ==
    evaluation.called =>
        \A other \in Schedules :
            isMedicationDue(other, evaluation.frequency, evaluation.reminders,
                            evaluation.now, evaluation.reads) = evaluation.due

(* C12 witness: an inactive schedule that has not started yet is due. *)
C12_Witness ==
    /\ evaluation.called
    /\ ~evaluation.schedule.active
    /\ evaluation.now.day < evaluation.schedule.startDate
    /\ evaluation.due

(***************************************************************************)
(* Properties of the schedule aggregate and its routes.                    *)
(***************************************************************************)
ChildRows == scheduleFrequency \cup reminderTimes \cup medicationLogs

(* C13: once DeleteSchedule(id) has answered success, the store holds no
   reminder time, no frequency and no log with scheduleId = id, and no
   schedule row with that id. *)
C13_CascadeComplete ==
    \A h \in 1..MaxHandlers :
        (handlers[h].op = "deleteSchedule" /\ handlers[h].status = 204) =>
            /\ \A schedule \in medicationSchedules : schedule.id # handlers[h].target
            /\ \A row \in ChildRows : row.scheduleId # handlers[h].target

(* C13 witness: a delete answered 204 for a schedule to which a reminder
   had been added (the POST's 201 is still being delivered). *)
C13_Witness ==
    \E h \in 1..MaxHandlers, k \in 1..MaxHandlers :
        /\ handlers[h].op = "deleteSchedule" /\ handlers[h].status = 204
        /\ handlers[k].op = "postReminder" /\ handlers[k].status = 201
        /\ handlers[k].target = handlers[h].target

(* C14: in every reachable state, whatever the interleaving of the handlers,
   every reminder time, frequency and log row refers to a schedule row that
   exists. *)
C14_NoOrphanedChild ==
    \A row \in ChildRows : \E schedule \in medicationSchedules : schedule.id = row.scheduleId

(* C14 witness: a create request passed its owner check, the schedule was
   deleted before its insert, and the insert was refused. *)
C14_Witness ==
    \E k \in 1..MaxHandlers :
        /\ handlers[k].op \in {"postFrequency", "postReminder", "postLog"}
        /\ handlers[k].failed
        /\ handlers[k].seen = handlers[k].userId
        /\ \A schedule \in medicationSchedules : schedule.id # handlers[k].target

(* C15: a DeleteSchedule of which some delete failed is answered 500, never
   204. *)
C15_FailedDeleteReported ==
    \A h \in 1..MaxHandlers :
        (handlers[h].op = "deleteSchedule" /\ handlers[h].failed) =>
            (handlers[h].pc = "done" /\ handlers[h].status = 500)

(* C15 witness: a delete failed after the frequency had been removed; the
   schedule row is still there and the answer is 500. *)
C15_Witness ==
    \E h \in 1..MaxHandlers :
        /\ handlers[h].op = "deleteSchedule" /\ handlers[h].failed
        /\ handlers[h].status = 500
        /\ \E schedule \in medicationSchedules : schedule.id = handlers[h].target
        /\ serial.frequency > 0
        /\ scheduleFrequency = {}

(* C17: a step of a schedule-scoped handler whose user is not the owner of
   the schedule changes no stored row and carries no data; the handler is
   answered 403, at once when the route reads the schedule. *)
C17_OwnerScoping ==
    [][\A h \in 1..MaxHandlers :
            (/\ handlers'[h] # handlers[h]
             /\ handlers'[h].op # "none"
             /\ handlers'[h].seen \notin {0, handlers'[h].userId}) =>
                /\ UNCHANGED tables
                /\ handlers'[h].body = {}
                /\ handlers'[h].pc = "done" => handlers'[h].status = 403
                /\ handlers'[h].op # "deleteReminder" => handlers'[h].pc = "done"]_vars

(* C17 witness: a DELETE of a schedule that has a reminder, by a user who
   does not own it, answered 403 with the reminder still stored. *)
C17_Witness ==
    \E h \in 1..MaxHandlers :
        /\ handlers[h].op = "deleteSchedule"
        /\ handlers[h].status = 403
        /\ handlers[h].seen \notin {0, handlers[h].userId}
        /\ \E reminder \in reminderTimes : reminder.scheduleId = handlers[h].target

(***************************************************************************)
(* Properties of the realtime channel.                                     *)
(***************************************************************************)
(* medicineIds is an array of at least two numeric identifiers. *)
WellFormedIds(message) ==
    /\ message.isArray
    /\ Len(message.medicineIds) >= 2
    /\ \A i \in 1..Len(message.medicineIds) : message.medicineIds[i] # NonNumericEntry

(* C18: a check_interactions message whose medicineIds is not an array of
   at least two numeric identifiers is answered with an error at once, and
   checkInteractions is never invoked for it. *)
C18_InvalidIdsNeverResolved ==
    \A m \in 1..MaxMessages :
        (channel[m].type = "check_interactions" /\ ~WellFormedIds(channel[m])) =>
            /\ channel[m].pc = "done"
            /\ channel[m].errors = 1
            /\ ~channel[m].invoked

(* C19: answering a message with an error leaves the connection as it is,
   and on an open connection a well-formed check_interactions message is
   handed to the resolver and, unless the resolver fails, answered with
   interactions_result carrying the interactions of its ids, whatever was
   answered before on the connection. *)
C19_ErrorKeepsSession ==
    [][\A m \in 1..MaxMessages :
            channel'[m] # channel[m] =>
                /\ channel'[m].errors > 0 => socket' = socket
                /\ (/\ socket[channel'[m].ws] = "open"
                    /\ channel'[m].type = "check_interactions"
                    /\ WellFormedIds(channel'[m])) =>
                        /\ channel'[m].invoked
                        /\ (channel'[m].pc = "done" /\ ~channel'[m].threw) =>
                                /\ channel'[m].results = 1
                                /\ channel'[m].errors = 0
                                /\ channel'[m].rows =
                                        checkInteractions(drugInteractions, medicines,
                                                          channel'[m].medicineIds)]_vars

(* C19 witness: the first message was not JSON and got an error; the second
   one, on the same open connection, got its interactions. *)
C19_Witness ==
    /\ channel[1].ws = channel[2].ws
    /\ channel[1].ws \in Connections
    /\ socket[channel[1].ws] = "open"
    /\ channel[1].type = "invalid JSON"
    /\ channel[1].errors = 1
    /\ channel[2].results = 1
    /\ channel[2].rows # {}

(* C20: no check_interactions message gets more than one response; one
   whose handler has finished on a connection that is still open has got
   exactly one, a result or an error; and every message the resolver is
   working on is finished in the end. *)
C20_ExactlyOneResponse ==
    /\ [](\A m \in 1..MaxMessages : channel[m].results + channel[m].errors <= 1)
    /\ [](\A m \in 1..MaxMessages :
            (/\ channel[m].type = "check_interactions"
             /\ channel[m].pc = "done"
             /\ socket[channel[m].ws] = "open") => channel[m].results + channel[m].errors = 1)
    /\ \A m \in 1..MaxMessages :
            (channel[m].pc = "resolving") ~> (channel[m].pc = "done")

(* C20 witness: on an open connection one check got a result and another,
   whose lookup failed, an error. *)
C20_Witness ==
    \E m \in 1..MaxMessages, n \in 1..MaxMessages :
          /\ channel[m].ws = channel[n].ws
          /\ channel[m].ws \in Connections
          /\ socket[channel[m].ws] = "open"
          /\ channel[m].results = 1 /\ channel[m].errors = 0
          /\ channel[n].threw /\ channel[n].errors = 1 /\ channel[n].results = 0

(***************************************************************************)
(* Properties of the due computation on unrecognised data.                 *)
(***************************************************************************)
KnownFrequencyTypes == {"daily", "weekly", "monthly", "as_needed"}

(* C26: isMedicationDue returns false for a frequency whose type is none of
   daily, weekly, monthly, as_needed, and for a schedule without a frequency
   record, whatever the instant and the reminder times. *)
C26_DueFailsClosed ==
    (/\ evaluation.called
     /\ \/ evaluation.frequency = NoFrequency
        \/ evaluation.frequency.frequencyType \notin KnownFrequencyTypes)
        => ~evaluation.due

(* An evaluation of a frequency of type "hourly" at an instant within thirty
   minutes of a reminder time. *)
C26_Witness ==
    /\ evaluation.called
    /\ evaluation.frequency # NoFrequency
    /\ evaluation.frequency.frequencyType = "hourly"
    /\ \E i \in 1..Len(evaluation.reminders) :
            Distance(evaluation.reminders[i], evaluation.now) <= ThirtyMinutes
    /\ ~evaluation.due

(***************************************************************************)
(* Properties of the stored schedules.                                     *)
(***************************************************************************)
(* C24: every stored schedule that has an endDate has endDate >= startDate,
   after any sequence of POST /api/schedules and PATCH /api/schedules/:id
   requests. *)
C24_EndNotBeforeStart ==
    \A schedule \in medicationSchedules :
        schedule.endDate # NullDate => schedule.endDate >= schedule.startDate

(* C29: the userId of a stored schedule never changes: no step of a schedule
   route leaves a schedule with another owner than it had. *)
C29_OwnerNeverChanges ==
    [][\A before \in medicationSchedules :
            \A after \in medicationSchedules' :
                after.id = before.id => after.userId = before.userId]_vars

(* C23: a schedule never has more than one schedule_frequency row, after any
   sequence of POST /api/schedules and POST /api/schedules/:scheduleId/frequency
   requests. *)
C23_OneFrequencyPerSchedule ==
    \A schedule \in medicationSchedules :
        Cardinality({f \in scheduleFrequency : f.scheduleId = schedule.id}) <= 1

(***************************************************************************)
(* Properties of the medication log.                                       *)
(***************************************************************************)
(* C22: POST /api/schedules/:scheduleId/logs is a pure append.  A step
   leaves every existing log row as it is unless it is a step of DELETE
   /api/schedules/:id; the takenAt of a log request is the server's clock at
   its parse, whatever the body names; the insert is accepted whenever the
   schedule and the reminder time the row refers to exist, whether or not
   the schedule has a frequency or reminder times that make it due; an
   accepted insert adds exactly one row, with that takenAt, and answers
   it. *)
C22_LogIsAppendOnly ==
    [][/\ \/ medicationLogs \subseteq medicationLogs'
          \/ \E h \in 1..MaxHandlers :
                handlers[h].op = "deleteSchedule" /\ handlers'[h] # handlers[h]
       /\ \A h \in 1..MaxHandlers :
            /\ (Free(h) /\ handlers'[h].op = "postLog") => handlers'[h].takenAt = clock
            /\ (At(h, "postLog", "insert") /\ handlers'[h] # handlers[h]) =>
                    LET row == [id |-> serial.logs + 1, scheduleId |-> handlers[h].target,
                                reminderTimeId |-> handlers[h].arg,
                                takenAt |-> handlers[h].takenAt]
                    IN  IF /\ \E s \in medicationSchedules : s.id = row.scheduleId
                           /\ \/ row.reminderTimeId = NullId
                              \/ \E r \in reminderTimes : r.id = row.reminderTimeId
                        THEN /\ handlers'[h].status = 201
                             /\ handlers'[h].body = {row}
                             /\ row \notin medicationLogs
                             /\ medicationLogs' = medicationLogs \cup {row}
                        ELSE /\ handlers'[h].status = 500
                             /\ medicationLogs' = medicationLogs]_vars

(* A second log has been appended, at a later instant than the first, to a
   schedule that has no frequency row and so is never due. *)
C22_Witness ==
    \E h \in 1..MaxHandlers :
        /\ handlers[h].op = "postLog"
        /\ handlers[h].status = 201
        /\ \E new \in handlers[h].body, old \in medicationLogs :
            /\ new \in medicationLogs
            /\ old.id < new.id
            /\ old.takenAt < new.takenAt
            /\ new.takenAt = clock
        /\ \A f \in scheduleFrequency : f.scheduleId # handlers[h].target

(* The logs a view is to show: those of the schedule of the path, or those
   of the schedules the user owns. *)
InView(handler) ==
    IF handler.op = "getLogs"
    THEN {log \in medicationLogs : log.scheduleId = handler.target}
    ELSE {log \in medicationLogs :
            \E schedule \in medicationSchedules :
                schedule.id = log.scheduleId /\ schedule.userId = handler.userId}

(* C21: the array a log view answers for a limit of at least 1 holds only
   logs of the schedule (GET /api/schedules/:scheduleId/logs) or of the
   user's schedules (GET /api/logs), each once, in descending order of
   takenAt, as many as the limit allows and none older than a log left out;
   a user who owns no schedule is answered the empty array with status
   200. *)
C21_HistoryViews ==
    \A h \in 1..MaxHandlers :
        (/\ handlers[h].op \in {"getLogs", "getUserLogs"}
         /\ handlers[h].pc = "done"
         /\ handlers[h].op = "getLogs" => handlers[h].status \notin {403, 404}
         /\ handlers[h].limit >= 1) =>
            LET list == handlers[h].list
                view == InView(handlers[h])
            IN  /\ handlers[h].status = 200
                /\ ~handlers[h].failed
                /\ \A i \in 1..Len(list) : list[i] \in view
                /\ \A i \in 1..Len(list), j \in 1..Len(list) :
                        i < j => list[i] # list[j] /\ list[i].takenAt >= list[j].takenAt
                /\ Len(list) = IF handlers[h].limit < Cardinality(view)
                               THEN handlers[h].limit ELSE Cardinality(view)
                /\ \A log \in view :
                        (\A i \in 1..Len(list) : list[i] # log) =>
                            \A i \in 1..Len(list) : list[i].takenAt >= log.takenAt
                /\ (\A schedule \in medicationSchedules :
                        schedule.userId # handlers[h].userId) => list = <<>>

(* GET /api/logs?limit=1 by a user with two logs of different instants,
   while the other user has a log too: the answer is the newer log alone. *)
C21_Witness ==
    \E h \in 1..MaxHandlers :
        /\ handlers[h].op = "getUserLogs"
        /\ handlers[h].status = 200
        /\ handlers[h].limit = 1
        /\ Len(handlers[h].list) = 1
        /\ \E log \in InView(handlers[h]) : log.takenAt < handlers[h].list[1].takenAt
        /\ \E log \in medicationLogs : log \notin InView(handlers[h])

(***************************************************************************)
(* Properties of the order of deleteMedicationSchedule.                    *)
(***************************************************************************)
(* C25: every statement of the cascade is issued when no stored row refers
   to a row it is to delete: no log refers to a reminder time of the
   schedule when its reminder times are deleted, and no frequency, reminder
   time or log refers to the schedule when the schedule row is deleted. *)
C25_DeleteOrderRespectsReferences ==
    [][\A h \in 1..MaxHandlers :
            /\ (At(h, "deleteSchedule", "deleteReminderTimes") /\ handlers'[h] # handlers[h]) =>
                    \A reminder \in reminderTimes, log \in medicationLogs :
                        reminder.scheduleId = handlers[h].target =>
                            log.reminderTimeId # reminder.id
            /\ (At(h, "deleteSchedule", "deleteSchedule") /\ handlers'[h] # handlers[h]) =>
                    \A row \in ChildRows : row.scheduleId # handlers[h].target]_vars

(* C27: with one request at a time, a DELETE of a schedule of which a
   statement failed is answered 500 and leaves the schedule row stored, so
   the request can be sent again; a DELETE of which no statement failed,
   first or repeated, is answered 204 and leaves no row of the aggregate,
   whatever an earlier attempt had already removed. *)
C27_RetryTolerated ==
    \A h \in 1..MaxHandlers :
        (/\ handlers[h].op = "deleteSchedule"
         /\ handlers[h].pc = "done"
         /\ handlers[h].status \notin {403, 404}) =>
            IF handlers[h].failed
            THEN /\ handlers[h].status = 500
                 /\ \E schedule \in medicationSchedules : schedule.id = handlers[h].target
            ELSE /\ handlers[h].status = 204
                 /\ \A schedule \in medicationSchedules : schedule.id # handlers[h].target
                 /\ \A row \in ChildRows : row.scheduleId # handlers[h].target

(* A DELETE that arrived after an earlier one had removed the frequency and
   then failed, answered 204. *)
C27_Witness ==
    \E h \in 1..MaxHandlers :
        /\ handlers[h].op = "deleteSchedule"
        /\ handlers[h].retry
        /\ handlers[h].status = 204
        /\ medicationSchedules = {}

(***************************************************************************)
(* Properties of a connection that closes while a check is in flight.      *)
(***************************************************************************)
Responses(message) == message.results + message.errors

(* C28: a response is sent only on a connection that is open; a lookup in
   flight ends, answered when the connection of its message is open and
   with nothing sent when it is closed, whatever the state of the other
   connections; a step of a handler changes the state of no other
   connection, and a connection's closing changes no message; a lookup
   whose connection has closed still comes to its end, with no response. *)
C28_DisconnectDiscardsResult ==
    /\ [][/\ \A m \in 1..MaxMessages :
                channel'[m] # channel[m] =>
                    /\ Responses(channel'[m]) > Responses(channel[m]) =>
                            socket[channel'[m].ws] = "open"
                    /\ channel[m].pc = "resolving" =>
                            /\ channel'[m].pc = "done"
                            /\ Responses(channel'[m]) =
                                    IF socket[channel[m].ws] = "open" THEN 1 ELSE 0
                    /\ \A d \in Connections \ {channel'[m].ws} : socket'[d] = socket[d]
          /\ socket' # socket => channel' = channel]_vars
    /\ \A m \in 1..MaxMessages :
            (channel[m].pc = "resolving" /\ socket[channel[m].ws] = "closed")
                ~> (channel[m].pc = "done" /\ Responses(channel[m]) = 0)

(* The lookup of a message ended without failing after its connection had
   closed, and nothing was sent for it; a later message on another
   connection got its result. *)
C28_Witness ==
    \E m \in 1..MaxMessages, n \in 1..MaxMessages :
        /\ m < n
        /\ channel[m].pc = "done" /\ channel[n].pc = "done"
        /\ channel[m].ws # channel[n].ws
        /\ socket[channel[m].ws] = "closed"
        /\ channel[m].invoked /\ ~channel[m].threw
        /\ Responses(channel[m]) = 0
        /\ channel[n].results = 1

(* C30: the component never stays in the checking state forever: once
   isChecking is set it returns to false in the end, whether the server
   answers with interactions_result or error, the socket raises an error or
   the connection closes before a response arrives. *)
C30_CheckingEnds == checker.isChecking ~> ~checker.isChecking

====
